---------------------------- MODULE Spec2Model ----------------------------
(***************************************************************************)
(* A model of blockchain.go: a proof-of-work chain of blocks.              *)
(*                                                                         *)
(* Go strings and byte slices are sequences of bytes (0..255).  A Go slice *)
(* is a reference into a backing array held in `mem`, so that two slice    *)
(* values that share a backing array see each other's writes: a            *)
(* []Transaction is the number of its array (the slices the program makes  *)
(* span their whole array), and bc.Blocks is the three words of its slice  *)
(* header (ptr, len, cap) over an array of blocks.  sha256.Sum256 is       *)
(* SHA-256, computed on 32-bit words held as two 16-bit halves.            *)
(***************************************************************************)
EXTENDS Integers, Sequences, FiniteSets, TLC

(***************************************************************************)
(* Bounds of the exploration.                                              *)
(***************************************************************************)
\* the longest chain explored (genesis included)
MaxBlocks == 3
\* the AddBlock calls two goroutines make in all
MaxAppends == 3
\* the nonce at which the exploration stops following mine's loop
MaxNonce == 200
\* the writes a caller makes to the slices it holds
MaxWrites == 1
\* the longest transaction list whose encoding is compared with the others'
MaxTxs == 2

(***************************************************************************)
(* Bytes.                                                                  *)
(***************************************************************************)
\* '|', the field separator (blockchain.go:72)
Bar == 124
\* '\n', the transaction terminator (blockchain.go:76)
NewLine == 10
\* '0', the character of the target prefix (blockchain.go:104)
Zero == 48
\* '-', the sign strconv writes for a negative number
Minus == 45
\* 'a', the first letter hex.EncodeToString uses above 9
LetterA == 97
\* sha256.Size: the bytes of a digest
Size == 32

\* the Go zero value of a string, and of a slice with no backing array
EmptyString == <<>>
NoArray == 0
Nil == [nil |-> TRUE]

(***************************************************************************)
(* strconv.Itoa / strconv.FormatInt(_, 10): the decimal digits of n, with  *)
(* a leading '-' for a negative n.                                         *)
(***************************************************************************)
RECURSIVE Digits(_)
Digits(n) ==
    IF n < 10 THEN <<Zero + n>>
    ELSE Append(Digits(n \div 10), Zero + (n % 10))

Itoa(n) == IF n < 0 THEN <<Minus>> \o Digits(-n) ELSE Digits(n)

FormatInt(n) == Itoa(n)

(***************************************************************************)
(* strings.Repeat(s, count): panics for a negative count.                  *)
(***************************************************************************)
RepeatPanics(count) == count < 0

Repeat(s, count) ==
    [i \in 1 .. count * Len(s) |-> s[((i - 1) % Len(s)) + 1]]

\* strings.HasPrefix
HasPrefix(s, prefix) ==
    /\ Len(s) >= Len(prefix)
    /\ SubSeq(s, 1, Len(prefix)) = prefix

(***************************************************************************)
(* Memory: the backing arrays of the transaction slices (m.txs) and of the *)
(* block slices (m.blocks).  Elems is the elements of the transaction      *)
(* slice `ref`.                                                            *)
(***************************************************************************)
NoMemory == [txs |-> <<>>, blocks |-> <<>>]

Elems(m, ref) == IF ref = NoArray THEN <<>> ELSE m.txs[ref]

\* memory m with one more array of transactions, and the slice over it
NewTxs(m, list) == [m EXCEPT !.txs = Append(@, list)]
LastTxs(m) == Len(m.txs)

(***************************************************************************)
(* serializeTransactions: from '|' to '|' amount '\n' for each transaction *)
(* in order.                                                               *)
(***************************************************************************)
\* mutant: each name is written after its length
RECURSIVE serializeTransactionsLengthPrefixed(_)
serializeTransactionsLengthPrefixed(txs) ==
    IF txs = <<>> THEN <<>>
    ELSE LET tx == Head(txs)
         IN  Itoa(Len(tx.From)) \o <<Bar>> \o tx.From \o <<Bar>>
                \o Itoa(Len(tx.To)) \o <<Bar>> \o tx.To \o <<Bar>>
                \o Itoa(tx.Amount) \o <<NewLine>>
                \o serializeTransactionsLengthPrefixed(Tail(txs))

\* mutant: no terminator is written after a transaction
RECURSIVE serializeTransactionsNoTerminator(_)
serializeTransactionsNoTerminator(txs) ==
    IF txs = <<>> THEN <<>>
    ELSE LET tx == Head(txs)
         IN  tx.From \o <<Bar>> \o tx.To \o <<Bar>> \o Itoa(tx.Amount)
                \o serializeTransactionsNoTerminator(Tail(txs))

RECURSIVE serializeTransactions(_)
serializeTransactions(txs) ==
    IF txs = <<>> THEN <<>>
    ELSE LET tx == Head(txs)
         IN  tx.From \o <<Bar>> \o tx.To \o <<Bar>> \o Itoa(tx.Amount)
                \o <<NewLine>> \o serializeTransactions(Tail(txs))

(***************************************************************************)
(* The bytes calculateHash hands to the digest.                            *)
(***************************************************************************)
\* mutant: the stored hash is hashed too
blockBytesWithHash(b, m) ==
    Itoa(b.Index) \o <<Bar>> \o FormatInt(b.Timestamp) \o <<Bar>>
        \o b.PrevHash \o <<Bar>>
        \o serializeTransactions(Elems(m, b.Transactions)) \o <<Bar>>
        \o FormatInt(b.Nonce) \o b.Hash

blockBytes(b, m) ==
    Itoa(b.Index) \o <<Bar>> \o FormatInt(b.Timestamp) \o <<Bar>>
        \o b.PrevHash \o <<Bar>>
        \o serializeTransactions(Elems(m, b.Transactions)) \o <<Bar>>
        \o FormatInt(b.Nonce)

(***************************************************************************)
(* sha256.Sum256 (FIPS 180-4).  A 32-bit word is a pair <<high, low>> of   *)
(* 16-bit halves, so that no sum leaves the range of the integers at hand. *)
(***************************************************************************)
\* the initial hash value (init0 .. init7 of crypto/sha256)
InitialHash ==
    <<
      <<27145, 58983>>, <<47975, 44677>>, <<15470, 62322>>, <<42319, 62778>>,
      <<20750, 21119>>, <<39685, 26764>>, <<8067, 55723>>, <<23520, 52505>> >>

\* the round constants (_K of crypto/sha256)
RoundConstants ==
    <<
      <<17034, 12184>>, <<28983, 17553>>, <<46528, 64463>>, <<59829, 56229>>,
      <<14678, 49755>>, <<23025, 4593>>, <<37439, 33444>>, <<43804, 24277>>,
      <<55303, 43672>>, <<4739, 23297>>, <<9265, 34238>>, <<21772, 32195>>,
      <<29374, 23924>>, <<32990, 45566>>, <<39900, 1703>>, <<49563, 61812>>,
      <<58523, 27073>>, <<61374, 18310>>, <<4033, 40390>>, <<9228, 41420>>,
      <<11753, 11375>>, <<19060, 33962>>, <<23728, 43484>>, <<30457, 35034>>,
      <<38974, 20818>>, <<43057, 50797>>, <<45059, 10184>>, <<48985, 32711>>,
      <<50912, 3059>>, <<54695, 37191>>, <<1738, 25425>>, <<5161, 10599>>,
      <<10167, 2693>>, <<11803, 8504>>, <<19756, 28156>>, <<21304, 3347>>,
      <<25866, 29524>>, <<30314, 2747>>, <<33218, 51502>>, <<37490, 11397>>,
      <<41663, 59553>>, <<43034, 26187>>, <<49739, 35696>>, <<51052, 20899>>,
      <<53650, 59417>>, <<54937, 1572>>, <<62478, 13701>>, <<4202, 41072>>,
      <<6564, 49430>>, <<7735, 27656>>, <<10056, 30540>>, <<13488, 48309>>,
      <<14620, 3251>>, <<20184, 43594>>, <<23452, 51791>>, <<26670, 28659>>,
      <<29839, 33518>>, <<30885, 25455>>, <<33992, 30740>>, <<36039, 520>>,
      <<37054, 65530>>, <<42064, 27883>>, <<48889, 41975>>, <<50801, 30962>> >>

\* the exclusive or, and the conjunction, of two bytes, bit by bit
xorByte(a, b) ==
        ((a + b) % 2)
      + 2 * (((a \div 2) + (b \div 2)) % 2)
      + 4 * (((a \div 4) + (b \div 4)) % 2)
      + 8 * (((a \div 8) + (b \div 8)) % 2)
      + 16 * (((a \div 16) + (b \div 16)) % 2)
      + 32 * (((a \div 32) + (b \div 32)) % 2)
      + 64 * (((a \div 64) + (b \div 64)) % 2)
      + 128 * (((a \div 128) + (b \div 128)) % 2)

andByte(a, b) ==
        ((a % 2) * (b % 2))
      + 2 * (((a \div 2) % 2) * ((b \div 2) % 2))
      + 4 * (((a \div 4) % 2) * ((b \div 4) % 2))
      + 8 * (((a \div 8) % 2) * ((b \div 8) % 2))
      + 16 * (((a \div 16) % 2) * ((b \div 16) % 2))
      + 32 * (((a \div 32) % 2) * ((b \div 32) % 2))
      + 64 * (((a \div 64) % 2) * ((b \div 64) % 2))
      + 128 * (((a \div 128) % 2) * ((b \div 128) % 2))

\* entry 256 * a + b + 1 is the result for the bytes a and b
XorTable ==
    [i \in 1 .. 65536 |-> xorByte((i - 1) \div 256, (i - 1) % 256)] \o <<>>
AndTable ==
    [i \in 1 .. 65536 |-> andByte((i - 1) \div 256, (i - 1) % 256)] \o <<>>

\* the same of two 16-bit halves, byte by byte, and of two words
xor16(a, b) ==
    XorTable[(a \div 256) * 256 + (b \div 256) + 1] * 256
        + XorTable[(a % 256) * 256 + (b % 256) + 1]
and16(a, b) ==
    AndTable[(a \div 256) * 256 + (b \div 256) + 1] * 256
        + AndTable[(a % 256) * 256 + (b % 256) + 1]

Xor(x, y) == <<xor16(x[1], y[1]), xor16(x[2], y[2])>>
Xor3(x, y, z) ==
    <<xor16(xor16(x[1], y[1]), z[1]), xor16(xor16(x[2], y[2]), z[2])>>
And(x, y) == <<and16(x[1], y[1]), and16(x[2], y[2])>>
Not(x) == <<65535 - x[1], 65535 - x[2]>>

\* x rotated right by n bits, n below 16: p is 2^n and q is 2^(16-n)
rotr(x, p, q) ==
    <<(x[1] \div p) + (x[2] % p) * q, (x[2] \div p) + (x[1] % p) * q>>
\* x rotated right by 16 + n bits
rotrSwap(x, p, q) ==
    <<(x[2] \div p) + (x[1] % p) * q, (x[1] \div p) + (x[2] % p) * q>>
\* x shifted right by n bits, n below 16
shr(x, p, q) == <<x[1] \div p, (x[2] \div p) + (x[1] % p) * q>>

\* sums modulo 2^32
Sum2(x, y) ==
    LET lo == x[2] + y[2]
    IN  <<(x[1] + y[1] + lo \div 65536) % 65536, lo % 65536>>
Sum4(x, y, z, u) ==
    LET lo == x[2] + y[2] + z[2] + u[2]
    IN  <<(x[1] + y[1] + z[1] + u[1] + lo \div 65536) % 65536, lo % 65536>>
Sum5(x, y, z, u, v) ==
    LET lo == x[2] + y[2] + z[2] + u[2] + v[2]
    IN  <<(x[1] + y[1] + z[1] + u[1] + v[1] + lo \div 65536) % 65536,
          lo % 65536>>

\* rotations by 2, 13 and 22; by 6, 11 and 25; by 7 and 18 with a shift by
\* 3; by 17 and 19 with a shift by 10
BigSigma0(x) == Xor3(rotr(x, 4, 16384), rotr(x, 8192, 8), rotrSwap(x, 64, 1024))
BigSigma1(x) == Xor3(rotr(x, 64, 1024), rotr(x, 2048, 32), rotrSwap(x, 512, 128))
SmallSigma0(x) == Xor3(rotr(x, 128, 512), rotrSwap(x, 4, 16384), shr(x, 8, 8192))
SmallSigma1(x) == Xor3(rotrSwap(x, 2, 32768), rotrSwap(x, 8, 8192), shr(x, 1024, 64))
Ch(x, y, z) == Xor(And(x, y), And(Not(x), z))
Maj(x, y, z) == Xor3(And(x, y), And(x, z), And(y, z))

\* words lo .. hi of the message schedule, appended to w (words 1 .. lo - 1);
\* the left half is evaluated before the right half is entered
RECURSIVE Schedule(_, _, _)
Schedule(w, lo, hi) ==
    IF lo = hi
    THEN Append(w, Sum4(SmallSigma1(w[lo - 2]), w[lo - 7],
                        SmallSigma0(w[lo - 15]), w[lo - 16]))
    ELSE LET mid == (lo + hi) \div 2
             left == Schedule(w, lo, mid)
         IN  IF Len(left) < mid THEN left
             ELSE Schedule(left, mid + 1, hi)

\* the working variables <<a, b, c, d, e, f, g, h>> after a round whose sums
\* are t1 and t2
Rotate(s, t1, t2) ==
    <<Sum2(t1, t2), s[1], s[2], s[3], Sum2(s[4], t1), s[5], s[6], s[7]>>

\* one round on the working variables s, with constant k and schedule word w
RoundStep(s, k, w) ==
    Rotate(s, Sum5(s[8], BigSigma1(s[5]), Ch(s[5], s[6], s[7]), k, w),
           Sum2(BigSigma0(s[1]), Maj(s[1], s[2], s[3])))

\* rounds lo .. hi on the working variables s
RECURSIVE Rounds(_, _, _, _)
Rounds(s, w, lo, hi) ==
    IF lo = hi THEN RoundStep(s, RoundConstants[lo], w[lo])
    ELSE LET mid == (lo + hi) \div 2
             left == Rounds(s, w, lo, mid)
         IN  IF Len(left) < 8 THEN left
             ELSE Rounds(left, w, mid + 1, hi)

\* the 16 words of the chunk of p at offset off, the high byte first
BlockWords(p, off) ==
    [i \in 1 .. 16 |->
        <<p[off + 4 * i - 3] * 256 + p[off + 4 * i - 2],
          p[off + 4 * i - 1] * 256 + p[off + 4 * i]>>]

\* the hash value h with the working variables s added to it, word by word
AddWords(h, s) == [i \in 1 .. 8 |-> Sum2(h[i], s[i])] \o <<>>

\* one chunk: the 64 rounds on the schedule of its words, added to h
Compress(h, p, off) ==
    AddWords(h, Rounds(h, Schedule(BlockWords(p, off), 17, 64), 1, 64))

\* the chunks of 64 bytes of p from offset off on, compressed into h
RECURSIVE blockGeneric(_, _, _)
blockGeneric(h, p, off) ==
    IF off >= Len(p) THEN h
    ELSE blockGeneric(Compress(h, p, off), p, off + 64)

\* the message with its padding: a byte 0x80, zeros up to 56 modulo 64, and
\* the length in bits as eight bytes, the high byte first
Pad(data) ==
    LET n == Len(data)
        bits == 8 * n
    IN  data \o <<128>> \o [i \in 1 .. (119 - n) % 64 |-> 0]
             \o <<0, 0, 0, 0, (bits \div 16777216) % 256, (bits \div 65536) % 256,
                  (bits \div 256) % 256, bits % 256>>

\* byte k of the digest: the words of h in order, the high byte first
DigestByte(h, k) ==
    IF k % 2 = 1 THEN h[(k + 3) \div 4][((k - 1) % 4) \div 2 + 1] \div 256
    ELSE h[(k + 3) \div 4][((k - 1) % 4) \div 2 + 1] % 256

\* the digest: the eight words of h as Size bytes
CheckSum(h) == [k \in 1 .. Size |-> DigestByte(h, k)] \o <<>>

Sum256(data) == CheckSum(blockGeneric(InitialHash, Pad(data), 0))

(***************************************************************************)
(* hex.EncodeToString: two lowercase hexadecimal characters per byte, the  *)
(* high half first.                                                        *)
(***************************************************************************)
HexChar(n) == IF n < 10 THEN Zero + n ELSE LetterA + (n - 10)

EncodeToString(bytes) ==
    [i \in 1 .. 2 * Len(bytes) |->
        LET b == bytes[(i + 1) \div 2]
        IN  IF i % 2 = 1 THEN HexChar(b \div 16) ELSE HexChar(b % 16)] \o <<>>

(***************************************************************************)
(* calculateHash: the digest of the block at its current nonce.  The Hash  *)
(* field is not read.                                                      *)
(***************************************************************************)
calculateHash(b, m) == EncodeToString(Sum256(blockBytes(b, m)))

(***************************************************************************)
(* One pass of mine's loop (blockchain.go:107-113) at `nonce`: the digest  *)
(* of mine's own copy of the block with that nonce, and whether it starts  *)
(* with the target prefix.                                                 *)
(***************************************************************************)
\* what a pass that computed the digest h at `nonce` hands back
Pass(h, targetPrefix, nonce) ==
    [hit |-> HasPrefix(h, targetPrefix), hash |-> h, nonce |-> nonce]

\* mutant: the nonce is stepped before it is returned
mineAttemptNextNonce(b, targetPrefix, nonce, m) ==
    Pass(calculateHash([b EXCEPT !.Nonce = nonce], m), targetPrefix, nonce + 1)

mineAttempt(b, targetPrefix, nonce, m) ==
    Pass(calculateHash([b EXCEPT !.Nonce = nonce], m), targetPrefix, nonce)

(***************************************************************************)
(* newGenesisBlock before it mines: index 0, the current time, no          *)
(* predecessor, an empty transaction slice.  t is time.Now().Unix().       *)
(***************************************************************************)
\* mutant: the genesis block names a fixed predecessor hash "0"
newGenesisBlockFixedPrev(t) ==
    [Index |-> 0, Timestamp |-> t, PrevHash |-> <<Zero>>,
     Hash |-> EmptyString, Nonce |-> 0, Transactions |-> NoArray]

newGenesisBlock(t) ==
    [Index |-> 0, Timestamp |-> t, PrevHash |-> EmptyString,
     Hash |-> EmptyString, Nonce |-> 0, Transactions |-> NoArray]

(***************************************************************************)
(* newBlock: the unmined successor of prev; it keeps the caller's slice.   *)
(***************************************************************************)
\* mutant: the new block copies its predecessor's link
newBlockNoLink(prev, txs, t) ==
    [Index |-> prev.Index + 1, Timestamp |-> t, PrevHash |-> prev.PrevHash,
     Hash |-> EmptyString, Nonce |-> 0, Transactions |-> txs]

\* mutant: the index is not stepped
newBlockSameIndex(prev, txs, t) ==
    [Index |-> prev.Index, Timestamp |-> t, PrevHash |-> prev.Hash,
     Hash |-> EmptyString, Nonce |-> 0, Transactions |-> txs]

\* mutant: the caller's transactions are dropped
newBlockNoTxs(prev, txs, t) ==
    [Index |-> prev.Index + 1, Timestamp |-> t, PrevHash |-> prev.Hash,
     Hash |-> EmptyString, Nonce |-> 0, Transactions |-> NoArray]

newBlock(prev, txs, t) ==
    [Index |-> prev.Index + 1, Timestamp |-> t, PrevHash |-> prev.Hash,
     Hash |-> EmptyString, Nonce |-> 0, Transactions |-> txs]

\* mutant: the nonce mine found is not stored
MinedNoNonce(b, r) == [b EXCEPT !.Hash = r.hash]

\* the block a call holds once mine has returned (hash, nonce)
\* (blockchain.go:50 and 124-126)
Mined(b, r) == [b EXCEPT !.Hash = r.hash, !.Nonce = r.nonce]

(***************************************************************************)
(* Slices of blocks.  A slice s is its header [ptr, len, cap]: the array   *)
(* m.blocks[s.ptr], of s.cap blocks, of which the first s.len are the      *)
(* slice's elements.  An array is made of zero blocks when it is           *)
(* allocated.                                                              *)
(***************************************************************************)
\* the zero value of Block
ZeroBlock ==
    [Index |-> 0, Timestamp |-> 0, PrevHash |-> EmptyString,
     Hash |-> EmptyString, Nonce |-> 0, Transactions |-> NoArray]

\* s[i - 1], for 1 <= i <= s.len, and the elements of s
At(s, i, m) == m.blocks[s.ptr][i]
BlocksOf(s, m) == SubSeq(m.blocks[s.ptr], 1, s.len)

\* the composite literal []Block{b} (blockchain.go:160): the slice, and the
\* memory that holds its array
Literal(b, m) ==
    [s |-> [ptr |-> Len(m.blocks) + 1, len |-> 1, cap |-> 1],
     m |-> [m EXCEPT !.blocks = Append(@, <<b>>)]]

(***************************************************************************)
(* append and the Go runtime behind it (runtime/slice.go, runtime/msize.go, *)
(* runtime/sizeclasses.go), for a 64-bit build of go 1.18 or later.  The   *)
(* allocator rounds the bytes of a new array up to a size class, and the   *)
(* array's capacity is what fits in the class; from go 1.22 on an object   *)
(* with pointers of more than 512 bytes also holds an 8-byte header.       *)
(***************************************************************************)
\* unsafe.Sizeof(Block{}): int 8, int64 8, string 16, string 16, int64 8 and
\* []Transaction 24 bytes (blockchain.go:25-32)
BlockSize == 80

\* class_to_size of runtime/sizeclasses.go: the sizes of small objects
class_to_size ==
    {0, 8, 16, 24, 32, 48, 64, 80, 96, 112, 128, 144, 160, 176, 192, 208, 224,
     240, 256, 288, 320, 352, 384, 416, 448, 480, 512, 576, 640, 704, 768, 896,
     1024, 1152, 1280, 1408, 1536, 1792, 2048, 2304, 2688, 3072, 3200, 3456,
     4096, 4864, 5376, 6144, 6528, 6784, 6912, 8192, 9472, 9728, 10240, 10880,
     12288, 13568, 14336, 16384, 18432, 19072, 20480, 21760, 24576, 27264,
     28672, 32768}

\* the largest small object, the page of the allocator, and the size up to
\* which an object with pointers has no header
maxSmallSize == 32768
pageSize == 8192
minSizeForMallocHeader == 512

\* mallocHeaderSize of the build: none before go 1.22, 8 bytes from it on
mallocHeaderSizes == {0, 8}

\* the size class of reqSize bytes (size_to_class8 and size_to_class128):
\* the smallest class that holds them
SizeClass(reqSize) ==
    CHOOSE c \in class_to_size :
        c >= reqSize /\ \A d \in class_to_size : d >= reqSize => c <= d

\* runtime.roundupsize for an object with pointers: the bytes the allocator
\* gives an object of `size` bytes, its header left out
roundupsize(size, mallocHeaderSize) ==
    IF size <= maxSmallSize - mallocHeaderSize
    THEN IF mallocHeaderSize > 0 /\ size > minSizeForMallocHeader
         THEN SizeClass(size + mallocHeaderSize) - mallocHeaderSize
         ELSE SizeClass(size)
    ELSE ((size + pageSize - 1) \div pageSize) * pageSize

\* the capacity from which a slice grows by a quarter (and 192 elements)
\* instead of doubling
threshold == 256

\* the loop of runtime.nextslicecap: newcap grows until it holds newLen (no
\* capacity of an array that fits in memory overflows an int)
RECURSIVE GrowSmoothly(_, _)
GrowSmoothly(newcap, newLen) ==
    IF newcap + (newcap + 3 * threshold) \div 4 >= newLen
    THEN newcap + (newcap + 3 * threshold) \div 4
    ELSE GrowSmoothly(newcap + (newcap + 3 * threshold) \div 4, newLen)

\* runtime.nextslicecap: the capacity asked for when a slice of capacity
\* oldCap is to hold newLen elements
nextslicecap(newLen, oldCap) ==
    IF newLen > oldCap + oldCap THEN newLen
    ELSE IF oldCap < threshold THEN oldCap + oldCap
    ELSE GrowSmoothly(oldCap, newLen)

\* runtime.growslice: a new array whose capacity is the blocks that fit in
\* the size class of nextslicecap blocks; it holds the elements `old` read
\* from the old array, and zero blocks after them
growslice(old, newLen, oldCap, m, mallocHeaderSize) ==
    LET capmem == roundupsize(BlockSize * nextslicecap(newLen, oldCap),
                              mallocHeaderSize)
        newcap == capmem \div BlockSize
    IN  [s |-> [ptr |-> Len(m.blocks) + 1, len |-> newLen, cap |-> newcap],
         m |-> [m EXCEPT !.blocks =
                   Append(@, old \o [i \in 1 .. newcap - Len(old) |-> ZeroBlock])]]

\* append(s, b), executed alone: the slice it returns and the memory after
\* it (the old array is left as it was when a new one is allocated)
append(s, b, m, mallocHeaderSize) ==
    LET g == IF s.len + 1 > s.cap
             THEN growslice(BlocksOf(s, m), s.len + 1, s.cap, m, mallocHeaderSize)
             ELSE [s |-> [s EXCEPT !.len = @ + 1], m |-> m]
    IN  [s |-> g.s, m |-> [g.m EXCEPT !.blocks[g.s.ptr][g.s.len] = b]]

(***************************************************************************)
(* IsValid.  A call returns a boolean or panics.                           *)
(***************************************************************************)
Returned(v) == [returns |-> v]
\* the panic of strings.Repeat for a negative count (blockchain.go:147)
Panicked == [panic |-> "strings: negative Repeat count"]
\* the loop body came to its end: the loop goes on
Continue == [continue |-> TRUE]

(***************************************************************************)
(* The body of IsValid's loop for block i (blockchain.go:136-149): the     *)
(* link to the predecessor, the digest, then the target prefix, which      *)
(* strings.Repeat builds from the difficulty.                              *)
(***************************************************************************)
blockValid(chain, i, m) ==
    LET cur == At(chain.Blocks, i, m)
        prev == At(chain.Blocks, i - 1, m)
    IN  IF cur.PrevHash # prev.Hash THEN Returned(FALSE)
        ELSE IF calculateHash(cur, m) # cur.Hash THEN Returned(FALSE)
        ELSE IF RepeatPanics(chain.Difficulty) THEN Panicked
        ELSE IF ~HasPrefix(cur.Hash, Repeat(<<Zero>>, chain.Difficulty))
        THEN Returned(FALSE)
        ELSE Continue

\* the loop over the blocks i .. last
RECURSIVE IsValidBlocks(_, _, _, _)
IsValidBlocks(chain, i, last, m) ==
    IF i > last THEN Returned(TRUE)
    ELSE LET r == blockValid(chain, i, m)
         IN  IF r = Continue THEN IsValidBlocks(chain, i + 1, last, m)
             ELSE r

\* mutant: the genesis block's hash is compared with its digest too
IsValidWithGenesis(chain, m) ==
    IF calculateHash(At(chain.Blocks, 1, m), m) # At(chain.Blocks, 1, m).Hash
    THEN Returned(FALSE)
    ELSE IsValidBlocks(chain, 2, chain.Blocks.len, m)

\* mutant: the loop stops one block early
IsValidSkipTail(chain, m) == IsValidBlocks(chain, 2, chain.Blocks.len - 1, m)

IsValid(chain, m) == IsValidBlocks(chain, 2, chain.Blocks.len, m)

(***************************************************************************)
(* IsValid's loop from block i on, with the place it leaves from: the      *)
(* block and the check at which it returns false (blockchain.go:140, 144,  *)
(* 148) or panics (blockchain.go:147), or the end of the loop              *)
(* (blockchain.go:151).                                                    *)
(***************************************************************************)
\* mutant: the digest is compared before the link
RECURSIVE IsValidLoopDigestFirst(_, _, _)
IsValidLoopDigestFirst(chain, i, m) ==
    IF i > chain.Blocks.len
    THEN [outcome |-> Returned(TRUE), block |-> 0, check |-> "none"]
    ELSE LET cur == At(chain.Blocks, i, m)
             prev == At(chain.Blocks, i - 1, m)
         IN  IF calculateHash(cur, m) # cur.Hash
             THEN [outcome |-> Returned(FALSE), block |-> i, check |-> "hash"]
             ELSE IF cur.PrevHash # prev.Hash
             THEN [outcome |-> Returned(FALSE), block |-> i, check |-> "prev_hash"]
             ELSE IF RepeatPanics(chain.Difficulty)
             THEN [outcome |-> Panicked, block |-> i, check |-> "difficulty"]
             ELSE IF ~HasPrefix(cur.Hash, Repeat(<<Zero>>, chain.Difficulty))
             THEN [outcome |-> Returned(FALSE), block |-> i, check |-> "difficulty"]
             ELSE IsValidLoopDigestFirst(chain, i + 1, m)

RECURSIVE IsValidLoop(_, _, _)
IsValidLoop(chain, i, m) ==
    IF i > chain.Blocks.len
    THEN [outcome |-> Returned(TRUE), block |-> 0, check |-> "none"]
    ELSE LET cur == At(chain.Blocks, i, m)
             prev == At(chain.Blocks, i - 1, m)
         IN  IF cur.PrevHash # prev.Hash
             THEN [outcome |-> Returned(FALSE), block |-> i, check |-> "prev_hash"]
             ELSE IF calculateHash(cur, m) # cur.Hash
             THEN [outcome |-> Returned(FALSE), block |-> i, check |-> "hash"]
             ELSE IF RepeatPanics(chain.Difficulty)
             THEN [outcome |-> Panicked, block |-> i, check |-> "difficulty"]
             ELSE IF ~HasPrefix(cur.Hash, Repeat(<<Zero>>, chain.Difficulty))
             THEN [outcome |-> Returned(FALSE), block |-> i, check |-> "difficulty"]
             ELSE IsValidLoop(chain, i + 1, m)

(***************************************************************************)
(* The state.                                                              *)
(*   status  "init" before NewBlockchain is called, "creating" while it    *)
(*           runs, "active" once it has returned the ledger, "panic" once  *)
(*           a call has panicked, "corrupt" once memory outside an array,  *)
(*           or a block while it was being written, has been accessed      *)
(*   bc      the Blockchain, Nil until NewBlockchain has returned it       *)
(*   mem     the backing arrays                                            *)
(*   call    per caller, the call it is in: the operation, the block it    *)
(*           has built, and the locals of the code it is in; Idle between  *)
(*           calls                                                         *)
(*   ret     per caller, the value its last call returned                  *)
(*   writes  the writes the callers have made to their slices              *)
(*   tamper  Nil, or the field of the ledger that was overwritten from     *)
(*           outside the ledger's operations, with its old and new value   *)
(*   overlapped  whether two calls have been in progress at the same time  *)
(*   begun   the AddBlock calls the two goroutines have begun             *)
(***************************************************************************)
VARIABLES status, bc, mem, call, ret, writes, tamper, overlapped, begun

vars == <<status, bc, mem, call, ret, writes, tamper, overlapped, begun>>

\* the callers; Main is the one of a single-threaded program, Other a
\* second goroutine that holds the same *Blockchain
Main == 1
Other == 2
Callers == {Main, Other}
Idle == [op |-> "idle"]

\* names the callers use
NameA == <<97>>
NameB == <<98>>
NameC == <<99>>
NameAB == <<97, Bar, 98>>
NameBC == <<98, Bar, 99>>
\* "b|1\nb|c": a name that holds a separator, an amount and a terminator
NameB1BC == <<98, Bar, Zero + 1, NewLine, 98, Bar, 99>>

Tx(from, to, amount) == [From |-> from, To |-> to, Amount |-> amount]

\* the non-empty transaction lists the callers build
TwoTransfers == <<Tx(NameA, NameB, 1), Tx(NameB, NameC, -5)>>
BarTransfer == <<Tx(NameAB, NameC, 1)>>
TxChoices == {TwoTransfers, BarTransfer}

\* the amounts a caller writes
Amounts == {1, 2}

\* the values time.Now().Unix() returns, in any order
FirstTick == 1700000000
Clock == {FirstTick, FirstTick + 1}

\* the difficulties NewBlockchain is called with: a negative one, small
\* ones, and one longer than a digest in hexadecimal
Difficulties == {-1, 0, 1, 2 * Size + 1}

Init ==
    /\ status = "init"
    /\ bc = Nil
    /\ mem = NoMemory
    /\ call = [c \in Callers |-> Idle]
    /\ ret = [c \in Callers |-> Nil]
    /\ writes = 0
    /\ tamper = Nil
    /\ overlapped = FALSE
    /\ begun = 0

\* the frame of a call that has built block b and is in mine's loop
\* (blockchain.go:104-108: the target prefix is built once, before the loop;
\* `pass` is the digest of the pass at `nonce` and its verdict)
Enter(op, txs, b, difficulty, m) ==
    [op |-> op, txs |-> txs, b |-> b, difficulty |-> difficulty,
     targetPrefix |-> Repeat(<<Zero>>, difficulty), nonce |-> 0,
     pass |-> mineAttempt(b, Repeat(<<Zero>>, difficulty), 0, m)]

\* caller c is in mine's loop
Mining(c) == call[c] # Idle /\ call[c].op \in {"NewBlockchain", "AddBlock"}

(***************************************************************************)
(* NewBlockchain(difficulty) is called: newGenesisBlock builds the block   *)
(* and calls mine, whose strings.Repeat panics for a negative difficulty;  *)
(* otherwise mine makes the first pass of its loop.                        *)
(***************************************************************************)
NewBlockchainCall(c, difficulty, t) ==
    /\ status = "init"
    /\ call[c] = Idle
    /\ IF RepeatPanics(difficulty)
       THEN /\ status' = "panic"
            /\ call' = call
       ELSE /\ status' = "creating"
            /\ call' = [call EXCEPT
                   ![c] = Enter("NewBlockchain", NoArray, newGenesisBlock(t),
                                difficulty, mem)]
    /\ UNCHANGED <<bc, mem, ret, writes, tamper, overlapped, begun>>

(***************************************************************************)
(* bc.AddBlock(txs) is called, txs a slice over the array `txs` of memory  *)
(* m (m is mem, with the array the caller has just built if it built one): *)
(* the tail is read, newBlock builds the block, mine makes the first pass  *)
(* of its loop.                                                            *)
(***************************************************************************)
AddBlockCall(c, txs, m, t) ==
    /\ status = "active"
    /\ call[c] = Idle
    /\ bc.Blocks.len < MaxBlocks
    /\ LET prev == At(bc.Blocks, bc.Blocks.len, mem)
           b == newBlock(prev, txs, t)
       IN  IF RepeatPanics(bc.Difficulty)
           THEN /\ status' = "panic"
                /\ call' = call
           ELSE /\ status' = status
                /\ call' = [call EXCEPT
                       ![c] = Enter("AddBlock", txs, b, bc.Difficulty, m)]
    /\ mem' = m
    /\ UNCHANGED <<bc, ret, writes, tamper, overlapped, begun>>

\* the caller builds one of the transaction lists and appends it
AppendNew(c, lists, ts) ==
    /\ status = "active"
    /\ \E list \in lists : \E t \in ts :
           AddBlockCall(c, LastTxs(NewTxs(mem, list)), NewTxs(mem, list), t)

\* the caller appends a slice it already holds (the empty one included)
AppendHeld(c, ts) ==
    /\ status = "active"
    /\ \E txs \in 0 .. Len(mem.txs) : \E t \in ts :
           AddBlockCall(c, txs, mem, t)

(***************************************************************************)
(* mine's loop: the digest of the pass misses the target, the nonce goes   *)
(* up and the next pass computes its digest.                               *)
(***************************************************************************)
\* mutant: mine works on the caller's block (a *Block), so that line 107
\* stores each nonce it tries in it
MineMissInPlace(c) ==
    /\ Mining(c)
    /\ call[c].nonce < MaxNonce
    /\ ~call[c].pass.hit
    /\ call' = [call EXCEPT
           ![c].nonce = @ + 1,
           ![c].b.Nonce = call[c].nonce + 1,
           ![c].pass = mineAttempt(call[c].b, call[c].targetPrefix,
                                   call[c].nonce + 1, mem)]
    /\ UNCHANGED <<status, bc, mem, ret, writes, tamper, overlapped, begun>>

\* mutant: a miss steps the nonce by two
MineMissSkip(c) ==
    /\ Mining(c)
    /\ call[c].nonce < MaxNonce
    /\ ~call[c].pass.hit
    /\ call' = [call EXCEPT
           ![c].nonce = @ + 2,
           ![c].pass = mineAttempt(call[c].b, call[c].targetPrefix,
                                   call[c].nonce + 2, mem)]
    /\ UNCHANGED <<status, bc, mem, ret, writes, tamper, overlapped, begun>>

MineMiss(c) ==
    /\ Mining(c)
    /\ call[c].nonce < MaxNonce
    /\ ~call[c].pass.hit
    /\ call' = [call EXCEPT
           ![c].nonce = @ + 1,
           ![c].pass = mineAttempt(call[c].b, call[c].targetPrefix,
                                   call[c].nonce + 1, mem)]
    /\ UNCHANGED <<status, bc, mem, ret, writes, tamper, overlapped, begun>>

(***************************************************************************)
(* mine returns to newGenesisBlock, and NewBlockchain returns the ledger.  *)
(***************************************************************************)
NewBlockchainReturn(c) ==
    /\ Mining(c)
    /\ call[c].op = "NewBlockchain"
    /\ call[c].pass.hit
    /\ LET l == Literal(Mined(call[c].b, call[c].pass), mem)
       IN  /\ bc' = [Blocks |-> l.s, Difficulty |-> call[c].difficulty]
           /\ mem' = l.m
    /\ status' = "active"
    /\ call' = [call EXCEPT ![c] = Idle]
    /\ UNCHANGED <<ret, writes, tamper, overlapped, begun>>

\* mutant: the new block is stored over the tail instead of after it
AddBlockReturnOverwrite(c) ==
    /\ Mining(c)
    /\ call[c].op = "AddBlock"
    /\ call[c].pass.hit
    /\ LET b == Mined(call[c].b, call[c].pass)
       IN  /\ mem' = [mem EXCEPT !.blocks[bc.Blocks.ptr][bc.Blocks.len] = b]
           /\ ret' = [ret EXCEPT ![c] = b]
    /\ call' = [call EXCEPT ![c] = Idle]
    /\ UNCHANGED <<status, bc, writes, tamper, overlapped, begun>>

(***************************************************************************)
(* mine returns to AddBlock, which appends the block and returns it; the   *)
(* runtime behind append is the one of either build.                       *)
(***************************************************************************)
AddBlockReturn(c) ==
    /\ Mining(c)
    /\ call[c].op = "AddBlock"
    /\ call[c].pass.hit
    /\ \E mallocHeaderSize \in mallocHeaderSizes :
           LET b == Mined(call[c].b, call[c].pass)
               a == append(bc.Blocks, b, mem, mallocHeaderSize)
           IN  /\ bc' = [bc EXCEPT !.Blocks = a.s]
               /\ mem' = a.m
               /\ ret' = [ret EXCEPT ![c] = b]
    /\ call' = [call EXCEPT ![c] = Idle]
    /\ UNCHANGED <<status, writes, tamper, overlapped, begun>>

\* the calls caller c makes, with difficulties ds, at times ts, with the
\* transaction lists `lists`
Calls(c, ds, ts, lists) ==
    \/ \E d \in ds : \E t \in ts : NewBlockchainCall(c, d, t)
    \/ NewBlockchainReturn(c)
    \/ AppendNew(c, lists, ts)
    \/ AppendHeld(c, ts)
    \/ MineMiss(c)
    \/ AddBlockReturn(c)

Next == Calls(Main, Difficulties, Clock, {TwoTransfers})

Spec == Init /\ [][Next]_vars

(***************************************************************************)
(* A caller, between its calls, writes the amount of an element of a slice *)
(* it holds: the list it passed to AddBlock, which is also the returned    *)
(* block's list.                                                           *)
(***************************************************************************)
CallerWrite(c, txs, i, amount) ==
    /\ status = "active"
    /\ call[c] = Idle
    /\ writes < MaxWrites
    /\ mem.txs[txs][i].Amount # amount
    /\ mem' = [mem EXCEPT !.txs[txs][i].Amount = amount]
    /\ writes' = writes + 1
    /\ UNCHANGED <<status, bc, call, ret, tamper, overlapped, begun>>

Write(c) ==
    \E txs \in 1 .. Len(mem.txs) : \E i \in 1 .. Len(mem.txs[txs]) :
        \E amount \in Amounts : CallerWrite(c, txs, i, amount)

(***************************************************************************)
(* bc.IsValid() is called between the caller's other calls; it returns a   *)
(* boolean, which the caller keeps, or panics.                             *)
(***************************************************************************)
IsValidCall(c) ==
    /\ status = "active"
    /\ call[c] = Idle
    /\ LET v == IsValid(bc, mem)
       IN  IF v = Panicked
           THEN /\ status' = "panic"
                /\ ret' = ret
           ELSE /\ status' = status
                /\ ret' = [ret EXCEPT
                       ![c] = [op |-> "IsValid", valid |-> v.returns]]
    /\ UNCHANGED <<bc, mem, call, writes, tamper, overlapped, begun>>

\* the program that appends at difficulty 1, writes to its slices and
\* validates
NextRead ==
    \/ Calls(Main, {1}, {FirstTick}, {TwoTransfers})
    \/ Write(Main)
    \/ IsValidCall(Main)

SpecRead == Init /\ [][NextRead]_vars

(***************************************************************************)
(* Tampering.  The fields of Block and Blockchain are exported, so code    *)
(* outside the ledger's operations can overwrite one field of a stored     *)
(* block.  Tamper does that once, to a ledger the operations have built:   *)
(* it gives the hash, the previous hash or the transactions of block i     *)
(* another value and leaves the rest as it is (the block is not mined      *)
(* again).                                                                 *)
(***************************************************************************)
\* the strings a hash field is overwritten with: the empty string, a digest
\* made of '0' only, and the hashes the ledger holds
HashValues ==
    {EmptyString, Repeat(<<Zero>>, 2 * Size) \o <<>>}
        \cup {At(bc.Blocks, j, mem).Hash : j \in 1 .. bc.Blocks.len}

\* the transaction lists a block's transactions are overwritten with
TamperLists ==
    TxChoices \cup
        { <<>>,
          <<Tx(NameA, NameBC, 1)>>,
          <<Tx(NameA, NameB1BC, -5)>>,
          <<Tx(NameAB, NameC, 2)>>,
          <<Tx(NameA, NameB, 1), Tx(NameB, NameC, 5)>>,
          <<Tx(NameB, NameC, -5), Tx(NameA, NameB, 1)>>,
          <<Tx(NameA, NameB, 1)>> }

Untouched ==
    /\ status = "active"
    /\ \A c \in Callers : call[c] = Idle
    /\ writes = 0
    /\ tamper = Nil

TamperHash(i, v) ==
    /\ Untouched
    /\ v # At(bc.Blocks, i, mem).Hash
    /\ mem' = [mem EXCEPT !.blocks[bc.Blocks.ptr][i].Hash = v]
    /\ tamper' = [block |-> i, field |-> "hash",
                  old |-> At(bc.Blocks, i, mem).Hash, new |-> v]
    /\ UNCHANGED <<status, bc, call, ret, writes, overlapped, begun>>

TamperPrevHash(i, v) ==
    /\ Untouched
    /\ v # At(bc.Blocks, i, mem).PrevHash
    /\ mem' = [mem EXCEPT !.blocks[bc.Blocks.ptr][i].PrevHash = v]
    /\ tamper' = [block |-> i, field |-> "prev_hash",
                  old |-> At(bc.Blocks, i, mem).PrevHash, new |-> v]
    /\ UNCHANGED <<status, bc, call, ret, writes, overlapped, begun>>

TamperTransactions(i, v) ==
    /\ Untouched
    /\ v # Elems(mem, At(bc.Blocks, i, mem).Transactions)
    /\ mem' = [NewTxs(mem, v) EXCEPT
                  !.blocks[bc.Blocks.ptr][i].Transactions = LastTxs(NewTxs(mem, v))]
    /\ tamper' = [block |-> i, field |-> "transactions",
                  old |-> Elems(mem, At(bc.Blocks, i, mem).Transactions),
                  new |-> v]
    /\ UNCHANGED <<status, bc, call, ret, writes, overlapped, begun>>

Tamper ==
    /\ status = "active"
    /\ \E i \in 2 .. bc.Blocks.len :
           \/ \E v \in HashValues : TamperHash(i, v)
           \/ \E v \in HashValues : TamperPrevHash(i, v)
           \/ \E v \in TamperLists : TamperTransactions(i, v)

NextTamper ==
    \/ tamper = Nil /\ Calls(Main, {0, 1}, {FirstTick}, TxChoices)
    \/ Tamper

SpecTamper == Init /\ [][NextTamper]_vars

(***************************************************************************)
(* Forging.  Code outside the ledger's operations overwrites any one field *)
(* of any stored block, the genesis block included, and may set the        *)
(* block's hash to the digest of what it wrote (the nonce is kept: the     *)
(* block is not mined again); or it overwrites the ledger's difficulty.    *)
(* Forge does that once, to a ledger no caller has written to; the nonce   *)
(* of the genesis block and the difficulty are also overwritten in a       *)
(* ledger a caller has written to.  The caller then validates the forged   *)
(* ledger.                                                                 *)
(***************************************************************************)
Fields == {"Index", "Timestamp", "PrevHash", "Hash", "Nonce", "Transactions"}

\* the transaction lists a forger writes
ForgeLists == { <<>>, <<Tx(NameA, NameBC, 1)>> }

\* the values a forger gives field f of block b
ForgeValues(b, f) ==
    CASE f = "Index" -> {b.Index - 1, b.Index + 1}
      [] f = "Timestamp" -> {b.Timestamp + 1}
      [] f = "Nonce" -> {b.Nonce + 1}
      [] f = "PrevHash" -> {EmptyString, b.Hash}
      [] f = "Hash" -> {EmptyString, Repeat(<<Zero>>, 2 * Size) \o <<>>}
      [] f = "Transactions" -> ForgeLists

ForgeField(i, f, v, rehash) ==
    LET old == At(bc.Blocks, i, mem)
        m == IF f = "Transactions" THEN NewTxs(mem, v) ELSE mem
        written == IF f = "Transactions"
                   THEN [old EXCEPT !.Transactions = LastTxs(m)]
                   ELSE [old EXCEPT ![f] = v]
        forged == IF rehash
                  THEN [written EXCEPT !.Hash = calculateHash(written, m)]
                  ELSE written
    IN  /\ status = "active"
        /\ \A c \in Callers : call[c] = Idle
        /\ tamper = Nil
        /\ writes = 0 \/ (i = 1 /\ f = "Nonce" /\ ~rehash)
        /\ rehash => f \in {"Index", "Nonce", "PrevHash"}
        /\ IF f = "Transactions" THEN v # Elems(mem, old.Transactions)
                                 ELSE v # old[f]
        /\ mem' = [m EXCEPT !.blocks[bc.Blocks.ptr][i] = forged]
        /\ tamper' = [block |-> i, field |-> f, rehash |-> rehash, old |-> old]
        /\ UNCHANGED <<status, bc, call, ret, writes, overlapped, begun>>

\* bc.Difficulty is overwritten: with a negative number, or with the next
\* difficulty
ForgeDifficulty(v) ==
    /\ status = "active"
    /\ \A c \in Callers : call[c] = Idle
    /\ tamper = Nil
    /\ v # bc.Difficulty
    /\ bc' = [bc EXCEPT !.Difficulty = v]
    /\ tamper' = [block |-> 0, field |-> "Difficulty", rehash |-> FALSE,
                  old |-> bc.Difficulty]
    /\ UNCHANGED <<status, mem, call, ret, writes, overlapped, begun>>

Forge ==
    /\ status = "active"
    /\ \/ \E i \in 1 .. bc.Blocks.len : \E f \in Fields :
              \E v \in ForgeValues(At(bc.Blocks, i, mem), f) :
                  \E rehash \in BOOLEAN : ForgeField(i, f, v, rehash)
       \/ \E v \in {-1, bc.Difficulty + 1} : ForgeDifficulty(v)

NextForge ==
    \/ /\ tamper = Nil
       /\ writes = 0
       /\ \/ Calls(Main, {1}, {FirstTick}, {TwoTransfers})
          \/ Write(Main)
    \/ Forge
    \/ tamper # Nil /\ IsValidCall(Main)

SpecForge == Init /\ [][NextForge]_vars

(***************************************************************************)
(* Two goroutines and one ledger, with no synchronisation: a data race on  *)
(* bc.Blocks.  AddBlock reads bc.Blocks at blockchain.go:120 and reads and *)
(* writes it at blockchain.go:128, and neither access is atomic: a slice   *)
(* header is three words, each loaded and stored on its own, and           *)
(* bc.Blocks = append(bc.Blocks, b) stores the capacity and the pointer    *)
(* (when it has allocated a new array), then the length, and writes the    *)
(* block into the array last.  Every step below is one access to shared    *)
(* memory together with the local computation that follows it; steps of    *)
(* the two goroutines interleave freely, and the words of a header are     *)
(* loaded in any order.  A block is several words as well: a goroutine     *)
(* that reads or writes an element of an array while the other goroutine   *)
(* is writing it gets words of two different blocks, and one that is given *)
(* a length beyond the end of an array accesses memory that is not the     *)
(* array's; from either nothing defined follows, and status becomes        *)
(* "corrupt".  The ledger has difficulty 0, so that mine returns from the  *)
(* first pass of its loop; both goroutines append the slice with no        *)
(* elements, and write nothing.                                            *)
(***************************************************************************)
Words == {"ptr", "len", "cap"}

\* the words hdr a goroutine has loaded, with word w of bc.Blocks loaded too
Word(hdr, w) ==
    [x \in DOMAIN hdr \cup {w} |-> IF x = w THEN bc.Blocks[w] ELSE hdr[x]]

\* another goroutine than c is writing one of the elements lo .. hi of
\* array p
BeingWritten(c, p, lo, hi) ==
    \E o \in Callers \ {c} :
        /\ call[o] # Idle
        /\ call[o].op = "write"
        /\ call[o].s.ptr = p
        /\ call[o].s.len \in lo .. hi

\* blockchain.go:120, bc.Blocks[len(bc.Blocks)-1]: AddBlock is called and
\* loads a word of bc.Blocks, or loads the other word
LoadTail(c, w) ==
    /\ status = "active"
    /\ \/ /\ call[c] = Idle
          /\ begun < MaxAppends
          /\ call' = [call EXCEPT
                 ![c] = [op |-> "tail", txs |-> NoArray, hdr |-> Word(<<>>, w)]]
          /\ overlapped' = (overlapped \/ \E o \in Callers \ {c} : call[o] # Idle)
          /\ begun' = begun + 1
       \/ /\ call[c] # Idle
          /\ call[c].op = "tail"
          /\ w \notin DOMAIN call[c].hdr
          /\ call' = [call EXCEPT ![c].hdr = Word(@, w)]
          /\ UNCHANGED <<overlapped, begun>>
    /\ UNCHANGED <<status, bc, mem, ret, writes, tamper>>

\* blockchain.go:120-124: the element the two words name is copied into
\* prev (the index is below the length that was loaded, so the bounds check
\* passes), newBlock builds the block and mine makes its first pass
ReadTail(c, t) ==
    /\ status = "active"
    /\ call[c] # Idle
    /\ call[c].op = "tail"
    /\ DOMAIN call[c].hdr = {"ptr", "len"}
    /\ LET p == call[c].hdr.ptr
           n == call[c].hdr.len
       IN  IF n > Len(mem.blocks[p]) \/ BeingWritten(c, p, n, n)
           THEN /\ status' = "corrupt"
                /\ call' = call
           ELSE IF RepeatPanics(bc.Difficulty)
           THEN /\ status' = "panic"
                /\ call' = call
           ELSE /\ status' = status
                /\ call' = [call EXCEPT
                       ![c] = Enter("AddBlock", call[c].txs,
                                    newBlock(mem.blocks[p][n], call[c].txs, t),
                                    bc.Difficulty, mem)]
    /\ UNCHANGED <<bc, mem, ret, writes, tamper, overlapped, begun>>

\* blockchain.go:125-128: mine has returned, the block gets its hash and
\* nonce, and a word of append's argument bc.Blocks is loaded; or another
\* word is loaded
LoadSlice(c, w) ==
    /\ status = "active"
    /\ \/ /\ Mining(c)
          /\ call[c].op = "AddBlock"
          /\ call[c].pass.hit
          /\ call' = [call EXCEPT
                 ![c] = [op |-> "append", txs |-> call[c].txs,
                         b |-> Mined(call[c].b, call[c].pass),
                         hdr |-> Word(<<>>, w)]]
       \/ /\ call[c] # Idle
          /\ call[c].op = "append"
          /\ w \notin DOMAIN call[c].hdr
          /\ call' = [call EXCEPT ![c].hdr = Word(@, w)]
    /\ UNCHANGED <<status, bc, mem, ret, writes, tamper, overlapped, begun>>

\* append finds no room (len + 1 > cap): growslice allocates an array and
\* copies the len elements of the old one into it
Grow(c) ==
    /\ status = "active"
    /\ call[c] # Idle
    /\ call[c].op = "append"
    /\ DOMAIN call[c].hdr = Words
    /\ call[c].hdr.len + 1 > call[c].hdr.cap
    /\ LET h == call[c].hdr
       IN  IF h.len > Len(mem.blocks[h.ptr]) \/ BeingWritten(c, h.ptr, 1, h.len)
           THEN /\ status' = "corrupt"
                /\ mem' = mem
                /\ call' = call
           ELSE \E mallocHeaderSize \in mallocHeaderSizes :
                    LET g == growslice(SubSeq(mem.blocks[h.ptr], 1, h.len),
                                       h.len + 1, h.cap, mem, mallocHeaderSize)
                    IN  /\ status' = status
                        /\ mem' = g.m
                        /\ call' = [call EXCEPT
                               ![c] = [op |-> "store", txs |-> call[c].txs,
                                       b |-> call[c].b, s |-> g.s,
                                       words |-> <<"cap", "ptr", "len">>]]
    /\ UNCHANGED <<bc, ret, writes, tamper, overlapped, begun>>

\* a word of the new header is stored in bc.Blocks: the length alone when
\* there was room (len + 1 <= cap), else the capacity, the pointer and the
\* length, in this order
StoreWord(c) ==
    /\ status = "active"
    /\ call[c] # Idle
    /\ \/ /\ call[c].op = "append"
          /\ DOMAIN call[c].hdr = Words
          /\ call[c].hdr.len + 1 <= call[c].hdr.cap
          /\ bc' = [bc EXCEPT !.Blocks.len = call[c].hdr.len + 1]
          /\ call' = [call EXCEPT
                 ![c] = [op |-> "store", txs |-> call[c].txs, b |-> call[c].b,
                         s |-> [ptr |-> call[c].hdr.ptr,
                                len |-> call[c].hdr.len + 1,
                                cap |-> call[c].hdr.cap],
                         words |-> <<>>]]
       \/ /\ call[c].op = "store"
          /\ call[c].words # <<>>
          /\ bc' = [bc EXCEPT
                 !.Blocks[Head(call[c].words)] = call[c].s[Head(call[c].words)]]
          /\ call' = [call EXCEPT ![c].words = Tail(@)]
    /\ UNCHANGED <<status, mem, ret, writes, tamper, overlapped, begun>>

\* the write of the block into element len - 1 of the array begins
BeginWrite(c) ==
    /\ status = "active"
    /\ call[c] # Idle
    /\ call[c].op = "store"
    /\ call[c].words = <<>>
    /\ LET s == call[c].s
       IN  IF s.len > Len(mem.blocks[s.ptr]) \/ BeingWritten(c, s.ptr, s.len, s.len)
           THEN /\ status' = "corrupt"
                /\ call' = call
           ELSE /\ status' = status
                /\ call' = [call EXCEPT ![c].op = "write"]
    /\ UNCHANGED <<bc, mem, ret, writes, tamper, overlapped, begun>>

\* mutant: the block is written over the element before it
EndWriteOverTail(c) ==
    /\ status = "active"
    /\ call[c] # Idle
    /\ call[c].op = "write"
    /\ mem' = [mem EXCEPT !.blocks[call[c].s.ptr][call[c].s.len - 1] = call[c].b]
    /\ ret' = [ret EXCEPT ![c] = call[c].b]
    /\ call' = [call EXCEPT ![c] = Idle]
    /\ UNCHANGED <<status, bc, writes, tamper, overlapped, begun>>

\* the write of the block ends, and AddBlock returns the block
\* (blockchain.go:129)
EndWrite(c) ==
    /\ status = "active"
    /\ call[c] # Idle
    /\ call[c].op = "write"
    /\ mem' = [mem EXCEPT !.blocks[call[c].s.ptr][call[c].s.len] = call[c].b]
    /\ ret' = [ret EXCEPT ![c] = call[c].b]
    /\ call' = [call EXCEPT ![c] = Idle]
    /\ UNCHANGED <<status, bc, writes, tamper, overlapped, begun>>

NextConcurrent ==
    \/ NewBlockchainCall(Main, 0, FirstTick)
    \/ NewBlockchainReturn(Main)
    \/ \E c \in Callers :
           \/ \E w \in {"ptr", "len"} : LoadTail(c, w)
           \/ ReadTail(c, FirstTick)
           \/ \E w \in Words : LoadSlice(c, w)
           \/ Grow(c)
           \/ StoreWord(c)
           \/ BeginWrite(c)
           \/ EndWrite(c)

SpecConcurrent == Init /\ [][NextConcurrent]_vars

(***************************************************************************)
(* The encoders alone.  A caller holds a transaction list whose names hold *)
(* no '|' and no newline, and has it encoded: by serializeTransactions, or *)
(* inside calculateHash as the transactions of a block header.  The result *)
(* is the byte sequence written to the buffer.                             *)
(***************************************************************************)
\* "1", a name made of a digit
NameOne == <<Zero + 1>>

\* names without '|' and newline, and the transactions made of them
CleanNames == {EmptyString, NameOne}
CleanTxs == {Tx(from, to, amount) :
                from \in CleanNames, to \in CleanNames, amount \in {1, 11}}
CleanLists == UNION {[1 .. n -> CleanTxs] : n \in 0 .. MaxTxs}

\* the headers calculateHash is given, over the list held in array txs
Headers(txs) ==
    {[Index |-> index, Timestamp |-> timestamp, PrevHash |-> prev,
      Hash |-> EmptyString, Nonce |-> nonce, Transactions |-> txs] :
         index \in {1, 11}, timestamp \in {1, 11}, prev \in CleanNames,
         nonce \in {1, 11}}

InitEncode ==
    /\ status = "init"
    /\ bc = Nil
    /\ mem \in {NewTxs(NoMemory, txs) : txs \in CleanLists}
    /\ call = [c \in Callers |-> Idle]
    /\ ret = [c \in Callers |-> Nil]
    /\ writes = 0
    /\ tamper = Nil
    /\ overlapped = FALSE
    /\ begun = 0

serializeTransactionsCall(c) ==
    /\ ret[c] = Nil
    /\ ret' = [ret EXCEPT ![c] =
                  [op |-> "serializeTransactions",
                   bytes |-> serializeTransactions(Elems(mem, 1))]]
    /\ UNCHANGED <<status, bc, mem, call, writes, tamper, overlapped, begun>>

calculateHashCall(c, b) ==
    /\ ret[c] = Nil
    /\ ret' = [ret EXCEPT ![c] =
                  [op |-> "calculateHash", b |-> b, bytes |-> blockBytes(b, mem)]]
    /\ UNCHANGED <<status, bc, mem, call, writes, tamper, overlapped, begun>>

NextEncode ==
    \/ serializeTransactionsCall(Main)
    \/ \E b \in Headers(1) : calculateHashCall(Main, b)

SpecEncode == InitEncode /\ [][NextEncode]_vars

(***************************************************************************)
(* Notions the properties use.                                             *)
(***************************************************************************)
\* the number of characters '0' a string starts with
LeadingZeros(h) ==
    IF \A i \in 1 .. Len(h) : h[i] = Zero THEN Len(h)
    ELSE (CHOOSE i \in 1 .. Len(h) :
              /\ h[i] # Zero
              /\ \A j \in 1 .. i - 1 : h[j] = Zero) - 1

\* the ledger exists
Created == bc # Nil

\* no call is in progress
Quiet == \A c \in Callers : call[c] = Idle

\* block i of the ledger (1 is the genesis block) and the number of blocks
Block(i) == At(bc.Blocks, i, mem)
Height == bc.Blocks.len

\* the transactions of a block, read through its slice
TxsOf(b, m) == Elems(m, b.Transactions)

\* what a reader of ledger chain sees in memory m: the blocks in their
\* order, the transactions of each, the difficulty
LedgerView(chain, m) ==
    [blocks |-> BlocksOf(chain.Blocks, m),
     txs |-> [i \in 1 .. chain.Blocks.len |-> TxsOf(At(chain.Blocks, i, m), m)],
     difficulty |-> chain.Difficulty]

\* caller c is inside a call of operation op in this state and has
\* returned from it in the next
Returns(c, op) ==
    /\ call[c] # Idle
    /\ call[c].op = op
    /\ call'[c] = Idle

(***************************************************************************)
(* C1.  A ledger built by NewBlockchain and AddBlock calls alone is valid  *)
(* whenever it can be validated, which is between the calls: IsValid       *)
(* returns true.                                                           *)
(***************************************************************************)
C1_ChainValid == (Created /\ Quiet) => IsValid(bc, mem) = Returned(TRUE)

\* a valid three-block ledger of difficulty 1 holding transactions
C1_Witness ==
    /\ Created
    /\ Quiet
    /\ bc.Difficulty = 1
    /\ Height >= 3
    /\ TxsOf(Block(2), mem) # <<>>
    /\ IsValid(bc, mem) = Returned(TRUE)

(***************************************************************************)
(* C2.  As claimed: after one field (hash, previous hash or transactions)  *)
(* of one block other than the genesis block of a valid ledger has been    *)
(* given any other value, IsValid returns false.                           *)
(***************************************************************************)
C2_AnyTamperDetected == tamper # Nil => IsValid(bc, mem) = Returned(FALSE)

(***************************************************************************)
(* C2, amended.  IsValid returns false after the hash or the previous hash *)
(* of such a block has been given another value, and after its             *)
(* transactions have been replaced by a list that serializes to other      *)
(* bytes.                                                                  *)
(***************************************************************************)
C2_TamperDetected ==
    (/\ tamper # Nil
     /\ \/ tamper.field \in {"hash", "prev_hash"}
        \/ serializeTransactions(tamper.new) # serializeTransactions(tamper.old))
        => IsValid(bc, mem) = Returned(FALSE)

\* the tail's transactions have been replaced by a list with another amount
C2_Witness ==
    /\ tamper # Nil
    /\ tamper.field = "transactions"
    /\ tamper.block = Height
    /\ Len(tamper.old) = Len(tamper.new)
    /\ serializeTransactions(tamper.new) # serializeTransactions(tamper.old)
    /\ IsValid(bc, mem) = Returned(FALSE)

(***************************************************************************)
(* C3.  Block i of the ledger has index i (counting from 0), the genesis   *)
(* block has the empty string as its previous hash, and every later block  *)
(* has its predecessor's hash as its previous hash.                        *)
(***************************************************************************)
C3_IndexAndLinkage ==
    Created =>
        /\ \A i \in 1 .. Height : Block(i).Index = i - 1
        /\ Block(1).PrevHash = EmptyString
        /\ \A i \in 2 .. Height : Block(i).PrevHash = Block(i - 1).Hash

\* a ledger of three blocks
C3_Witness == Created /\ Height >= 3 /\ Block(3).Index = 2

(***************************************************************************)
(* C4.  When mine returns (hash, nonce) for a difficulty in 0..5, the hash *)
(* starts with at least `difficulty` characters '0' and is the digest of   *)
(* the block with its nonce set to the returned nonce.                     *)
(***************************************************************************)
C4_MiningCorrect ==
    \A c \in Callers :
        (Mining(c) /\ call[c].pass.hit /\ call[c].difficulty \in 0 .. 5) =>
            /\ LeadingZeros(call[c].pass.hash) >= call[c].difficulty
            /\ call[c].pass.hash =
                   calculateHash([call[c].b EXCEPT !.Nonce = call[c].pass.nonce],
                                 mem)

\* mine is about to return from a search of difficulty 1 that took more than
\* one nonce, for a block with transactions
C4_Witness ==
    \E c \in Callers :
        /\ Mining(c)
        /\ call[c].difficulty = 1
        /\ call[c].nonce > 0
        /\ TxsOf(call[c].b, mem) # <<>>
        /\ call[c].pass.hit
        /\ call[c].pass.nonce = call[c].nonce

(***************************************************************************)
(* C5.  Every block the ledger holds, the genesis block included, has as   *)
(* its hash the digest of the block at its stored nonce, and that hash     *)
(* starts with at least `Difficulty` characters '0' (in a ledger built by  *)
(* NewBlockchain and AddBlock calls alone, after each of the calls; the    *)
(* steps within a call leave the blocks as they are, see C6).              *)
(***************************************************************************)
C5_StoredBlocks ==
    (Created /\ Quiet) =>
        \A i \in 1 .. Height :
            /\ calculateHash(Block(i), mem) = Block(i).Hash
            /\ LeadingZeros(Block(i).Hash) >= bc.Difficulty

\* a ledger of difficulty 1 whose genesis block and a later block were both
\* mined at a nonce above 0
C5_Witness ==
    /\ Created
    /\ Quiet
    /\ bc.Difficulty = 1
    /\ Block(1).Nonce > 0
    /\ \E i \in 2 .. Height : Block(i).Nonce > 0

(***************************************************************************)
(* C6.  Each AddBlock call adds exactly one block, at the tail, and leaves *)
(* the blocks the ledger held, with their transactions, and the difficulty *)
(* as they were; no other step of the program changes the ledger.          *)
(***************************************************************************)
C6_AppendOnly ==
    [][Created =>
          /\ Created'
          /\ bc'.Difficulty = bc.Difficulty
          /\ IF \E c \in Callers : Returns(c, "AddBlock")
             THEN /\ bc'.Blocks.len = Height + 1
                  /\ SubSeq(BlocksOf(bc'.Blocks, mem'), 1, Height)
                         = BlocksOf(bc.Blocks, mem)
                  /\ \A i \in 1 .. Height :
                         TxsOf(At(bc'.Blocks, i, mem'), mem') = TxsOf(Block(i), mem)
             ELSE LedgerView(bc', mem') = LedgerView(bc, mem)]_vars

\* two AddBlock calls have returned
C6_Witness == Created /\ Height >= 3 /\ Quiet

(***************************************************************************)
(* C7.  When AddBlock(txs) returns on a ledger whose tail is T, the new    *)
(* tail has index T.Index + 1, previous hash T.Hash, the transactions txs  *)
(* in their order, and a hash that is the digest of the block at its nonce *)
(* and meets the ledger's difficulty; the block returned equals the new    *)
(* tail.                                                                   *)
(***************************************************************************)
C7_AppendPost ==
    [][\A c \in Callers :
          Returns(c, "AddBlock") =>
              LET T == Block(Height)
                  tail == At(bc'.Blocks, bc'.Blocks.len, mem')
              IN  /\ bc'.Blocks.len = Height + 1
                  /\ tail.Index = T.Index + 1
                  /\ tail.PrevHash = T.Hash
                  /\ tail.Transactions = call[c].txs
                  /\ TxsOf(tail, mem') = Elems(mem, call[c].txs)
                  /\ calculateHash(tail, mem') = tail.Hash
                  /\ LeadingZeros(tail.Hash) >= bc.Difficulty
                  /\ ret'[c] = tail]_vars

\* AddBlock has returned a block with two transactions, mined at
\* difficulty 1, on top of a block that was appended too
C7_Witness ==
    /\ Created
    /\ bc.Difficulty = 1
    /\ Height >= 3
    /\ ret[Main] = Block(Height)
    /\ Len(TxsOf(Block(Height), mem)) = 2

(***************************************************************************)
(* C8.  When NewBlockchain(d) returns, the ledger holds exactly one block, *)
(* with index 0, the empty previous hash and no transactions, whose hash   *)
(* is the digest of the block at its nonce and starts with d characters    *)
(* '0', and the ledger's difficulty is d.                                  *)
(***************************************************************************)
C8_CreatePost ==
    [][\A c \in Callers :
          Returns(c, "NewBlockchain") =>
              /\ ~Created
              /\ Created'
              /\ bc'.Blocks.len = 1
              /\ LET g == At(bc'.Blocks, 1, mem')
                 IN  /\ g.Index = 0
                     /\ g.PrevHash = EmptyString
                     /\ TxsOf(g, mem') = <<>>
                     /\ calculateHash(g, mem') = g.Hash
                     /\ LeadingZeros(g.Hash) >= call[c].difficulty
              /\ bc'.Difficulty = call[c].difficulty]_vars

\* NewBlockchain(1) has returned, and nothing has been appended yet
C8_Witness ==
    /\ Created
    /\ Height = 1
    /\ bc.Difficulty = 1
    /\ Block(1).Nonce > 0
    /\ Quiet

(***************************************************************************)
(* C9.  As claimed: NewBlockchain with a negative difficulty yields no     *)
(* ledger and enters no mining loop, and every other call is total: no     *)
(* call panics, and a call that is mining can return, which takes a target *)
(* prefix no longer than a digest.                                         *)
(***************************************************************************)
C9_FailsClosedAndTotal ==
    /\ Created => bc.Difficulty >= 0
    /\ \A c \in Callers :
           Mining(c) =>
               /\ call[c].difficulty >= 0
               /\ Len(call[c].targetPrefix) <= 2 * Size
    /\ status = "panic" => ~Created

(***************************************************************************)
(* C10.  As claimed: no write a caller makes to a slice it holds (the list *)
(* it passed to AddBlock, the returned block's transactions) changes the   *)
(* transactions of a block the ledger holds.                               *)
(***************************************************************************)
C10_NoAliasing ==
    [][(Created /\ bc' = bc /\ mem'.blocks = mem.blocks) =>
          \A i \in 1 .. Height : TxsOf(Block(i), mem') = TxsOf(Block(i), mem)]_vars

(***************************************************************************)
(* C11.  IsValid never looks at the genesis block's own consistency: a     *)
(* ledger that holds the genesis block alone is valid whatever the fields  *)
(* of that block are, and in a longer ledger a new nonce, timestamp, index *)
(* or transaction list in the genesis block, with its hash left as it is,  *)
(* leaves the result of IsValid as it was.                                 *)
(***************************************************************************)
C11_GenesisNotValidated ==
    [][/\ (Created' /\ bc'.Blocks.len = 1) =>
              IsValid(bc', mem') = Returned(TRUE)
       /\ (/\ Created
           /\ tamper = Nil
           /\ tamper' # Nil
           /\ tamper'.block = 1
           /\ At(bc'.Blocks, 1, mem').Hash = Block(1).Hash)
              => (IsValid(bc', mem') = IsValid(bc, mem))]_vars

\* the genesis block of a valid ledger of several blocks has been given
\* another nonce and no longer hashes to its stored hash
C11_Witness ==
    /\ Created
    /\ tamper # Nil
    /\ tamper.block = 1
    /\ tamper.field = "Nonce"
    /\ ~tamper.rehash
    /\ Height >= 2
    /\ calculateHash(Block(1), mem) # Block(1).Hash
    /\ IsValid(bc, mem) = Returned(TRUE)

\* the three things IsValid asks of block i
LinkOK(i) == Block(i).PrevHash = Block(i - 1).Hash
DigestOK(i) == calculateHash(Block(i), mem) = Block(i).Hash
PrefixOK(i) == LeadingZeros(Block(i).Hash) >= bc.Difficulty

\* the place where IsValid's loop leaves, as r tells it, is the first check
\* in the order (a), (b), (c) that a block fails, at the first block that
\* fails one
FirstFailure(r) ==
    /\ r.block \in 2 .. Height
    /\ \A i \in 2 .. r.block - 1 : LinkOK(i) /\ DigestOK(i) /\ PrefixOK(i)
    /\ CASE r.check = "prev_hash" -> ~LinkOK(r.block)
         [] r.check = "hash" -> LinkOK(r.block) /\ ~DigestOK(r.block)
         [] r.check = "difficulty" ->
                /\ LinkOK(r.block)
                /\ DigestOK(r.block)
                /\ ~PrefixOK(r.block)
         [] OTHER -> FALSE

(***************************************************************************)
(* C12.  On any ledger with a difficulty of 0 or more, forged or not,      *)
(* IsValid (called between the calls that change the ledger) returns true  *)
(* exactly when every block i but the first (a) has the hash of block i-1  *)
(* as its previous hash, (b) has as its hash the digest of the block at    *)
(* its stored nonce, and (c) has a hash that starts with `Difficulty`      *)
(* characters '0'; it returns false at the first block that fails one of   *)
(* them, at the first of (a), (b), (c) the block fails.  The index of a    *)
(* block is not compared with its place.  (Once the difficulty has been    *)
(* overwritten with a negative number there is no such prefix: IsValid     *)
(* returns false at block 2 when it fails (a) or (b), and else panics      *)
(* there, in strings.Repeat.)                                              *)
(***************************************************************************)
C12_ValidateCharacterised ==
    (Created /\ Quiet) =>
        LET r == IsValidLoop(bc, 2, mem)
        IN  /\ r.outcome = IsValid(bc, mem)
            /\ bc.Difficulty >= 0 =>
                   /\ r.outcome \in {Returned(TRUE), Returned(FALSE)}
                   /\ IF r.outcome = Returned(TRUE)
                      THEN \A i \in 2 .. Height :
                               LinkOK(i) /\ DigestOK(i) /\ PrefixOK(i)
                      ELSE FirstFailure(r)
            /\ bc.Difficulty < 0 =>
                   IF Height = 1 THEN r.outcome = Returned(TRUE)
                   ELSE /\ r.block = 2
                        /\ IF LinkOK(2) /\ DigestOK(2)
                           THEN r.outcome = Panicked /\ r.check = "difficulty"
                           ELSE r.outcome = Returned(FALSE) /\ FirstFailure(r)

\* a forged ledger that is valid although its tail carries a wrong index
C12_Witness ==
    /\ Created
    /\ Quiet
    /\ tamper # Nil
    /\ tamper.field = "Index"
    /\ tamper.block = Height
    /\ Height >= 2
    /\ bc.Difficulty = 1
    /\ Block(Height).Index # Height - 1
    /\ IsValidLoop(bc, 2, mem).outcome = Returned(TRUE)

(***************************************************************************)
(* C13.  mine tries the nonces 0, 1, 2, ... in this order with no gap: a   *)
(* call enters the loop at nonce 0, a pass that misses goes on to the next *)
(* nonce, and the nonce mine returns is the smallest one whose digest has  *)
(* the target prefix (every smaller nonce misses); with difficulty 0 it    *)
(* returns nonce 0.                                                        *)
(***************************************************************************)
C13_SmallestNonce ==
    [][\A c \in Callers :
          /\ (call[c] = Idle /\ call'[c] # Idle) =>
                 /\ call'[c].nonce = 0
                 /\ call'[c].pass.nonce = 0
          /\ (call[c] # Idle /\ call'[c] # Idle /\ call'[c] # call[c]) =>
                 /\ ~call[c].pass.hit
                 /\ call'[c].nonce = call[c].nonce + 1
                 /\ call'[c].pass.nonce = call[c].nonce + 1
                 /\ [call'[c] EXCEPT !.nonce = 0, !.pass = 0]
                        = [call[c] EXCEPT !.nonce = 0, !.pass = 0]
          /\ (call[c] # Idle /\ call'[c] = Idle) =>
                 LET f == call[c]
                     stored == At(bc'.Blocks, bc'.Blocks.len, mem')
                 IN  /\ stored.Nonce = f.nonce
                     /\ HasPrefix(stored.Hash, f.targetPrefix)
                     /\ \A k \in 0 .. f.nonce - 1 :
                            ~mineAttempt(f.b, f.targetPrefix, k, mem).hit
                     /\ f.difficulty = 0 => f.nonce = 0]_vars

\* a block mined at difficulty 1 whose nonce is above 1, each smaller nonce
\* giving a digest without the prefix
C13_Witness ==
    /\ Created
    /\ bc.Difficulty = 1
    /\ \E i \in 2 .. Height :
           /\ Block(i).Nonce >= 2
           /\ \A k \in 0 .. Block(i).Nonce - 1 :
                  LeadingZeros(calculateHash([Block(i) EXCEPT !.Nonce = k], mem)) = 0

(***************************************************************************)
(* C14.  As claimed: every call of NewBlockchain(d) with d >= 0 and every  *)
(* AddBlock call returns: whenever a call is in mine's loop, the loop      *)
(* comes to a nonce whose digest has the target prefix.  No digest has a   *)
(* prefix longer than the digest itself.                                   *)
(***************************************************************************)
C14_MiningTerminates ==
    \A c \in Callers :
        Mining(c) =>
            /\ Len(call[c].targetPrefix) <= Len(call[c].pass.hash)
            /\ \E n \in call[c].nonce .. MaxNonce :
                   mineAttempt(call[c].b, call[c].targetPrefix, n, mem).hit

\* memory m with one more array, a copy of block b's transactions, and a
\* block with b's index, timestamp and previous hash whose transactions are
\* that copy and whose hash and nonce fields hold other values
CopyMem(b, m) == NewTxs(m, Elems(m, b.Transactions))
Twin(b, m) ==
    [b EXCEPT !.Hash = Repeat(<<Zero>>, 2 * Size),
              !.Nonce = b.Nonce + 7,
              !.Transactions = LastTxs(CopyMem(b, m))]

(***************************************************************************)
(* C15.  The digest is a function of a block's index, timestamp, previous  *)
(* hash, transactions and nonce alone, and mine's result is a function of  *)
(* index, timestamp, previous hash, transactions and difficulty alone:     *)
(* each pass of mine's loop gives, for a block that agrees with the mined  *)
(* one on these and differs in its hash field, its nonce field and the     *)
(* array that holds its transactions, the same digest and the same         *)
(* verdict, so both searches return the same (hash, nonce).                *)
(***************************************************************************)
C15_Deterministic ==
    \A c \in Callers :
        Mining(c) =>
            mineAttempt(Twin(call[c].b, mem), call[c].targetPrefix,
                        call[c].nonce, CopyMem(call[c].b, mem))
                = call[c].pass

\* mine is about to return, at a nonce above 0, for a block with
\* transactions, and would return the same for its twin
C15_Witness ==
    \E c \in Callers :
        /\ Mining(c)
        /\ call[c].op = "AddBlock"
        /\ call[c].nonce > 0
        /\ Len(TxsOf(call[c].b, mem)) = 2
        /\ Twin(call[c].b, mem) # call[c].b
        /\ call[c].pass.hit
        /\ mineAttempt(Twin(call[c].b, mem), call[c].targetPrefix,
                       call[c].nonce, CopyMem(call[c].b, mem)).hit

\* the headers that differ from header b, over memory m, in one field; a
\* header with other transactions holds them in the array after m's last
OtherIndex(b) == {[b EXCEPT !.Index = v] : v \in {1, 11, 111} \ {b.Index}}
OtherTimestamp(b) ==
    {[b EXCEPT !.Timestamp = v] : v \in {1, 11, 111} \ {b.Timestamp}}
OtherPrevHash(b) ==
    {[b EXCEPT !.PrevHash = v] :
         v \in (CleanNames \cup {<<Zero + 1, Zero + 1>>}) \ {b.PrevHash}}
OtherNonce(b) == {[b EXCEPT !.Nonce = v] : v \in {1, 11, 111} \ {b.Nonce}}
OtherLists(b, m) ==
    {txs \in CleanLists : Len(txs) <= 1 /\ txs # Elems(m, b.Transactions)}

(***************************************************************************)
(* C16.  Two different transaction lists whose names hold no '|' and no    *)
(* newline (different in length, in order or in a from, to or amount) are  *)
(* encoded as different byte sequences, and a block header over such a     *)
(* list (its previous hash without '|') is encoded differently once its    *)
(* index, timestamp, previous hash, transactions or nonce is changed.      *)
(***************************************************************************)
C16_EncodingInjective ==
    \A c \in Callers :
        (ret[c] # Nil /\ status = "init") =>
            IF ret[c].op = "serializeTransactions"
            THEN \A txs \in CleanLists :
                     txs # Elems(mem, 1) =>
                         serializeTransactions(txs) # ret[c].bytes
            ELSE LET b == ret[c].b
                 IN  /\ \A b2 \in OtherIndex(b) \cup OtherTimestamp(b)
                                  \cup OtherPrevHash(b) \cup OtherNonce(b) :
                            blockBytes(b2, mem) # ret[c].bytes
                     /\ \A txs \in OtherLists(b, mem) :
                            blockBytes([b EXCEPT !.Transactions =
                                            LastTxs(NewTxs(mem, txs))],
                                       NewTxs(mem, txs)) # ret[c].bytes

\* a list of two different transactions has been encoded; the same two in
\* the other order are encoded differently
C16_Witness ==
    /\ status = "init"
    /\ ret[Main] # Nil
    /\ ret[Main].op = "serializeTransactions"
    /\ Len(mem.txs[1]) = 2
    /\ mem.txs[1][1] # mem.txs[1][2]
    /\ serializeTransactions(<<mem.txs[1][2], mem.txs[1][1]>>) # ret[Main].bytes

\* pairs of different transaction lists: "a|b" to "c" and "a" to "b|c";
\* two transactions and one whose to-field holds the end of the first and
\* the start of the second
CollidingPairs ==
    LET bar1 == <<Tx(NameAB, NameC, 1)>>
        bar2 == <<Tx(NameA, NameBC, 1)>>
        two == <<Tx(NameA, NameB, 1), Tx(NameB, NameC, -5)>>
        one == <<Tx(NameA, NameB1BC, -5)>>
    IN  {<<bar1, bar2>>, <<bar2, bar1>>, <<two, one>>, <<one, two>>}

(***************************************************************************)
(* C17.  serializeTransactions escapes neither '|' nor newline in a name:  *)
(* the lists of each pair above are different and encoded as the same      *)
(* bytes, so a block has the same digest with either, and once a stored    *)
(* block's transactions have been replaced by the other list of the pair   *)
(* the block still hashes to its stored hash and IsValid still returns     *)
(* true.                                                                   *)
(***************************************************************************)
C17_DelimiterCollision ==
    (/\ tamper # Nil
     /\ tamper.field = "transactions"
     /\ <<tamper.old, tamper.new>> \in CollidingPairs) =>
        /\ tamper.old # tamper.new
        /\ serializeTransactions(tamper.new) = serializeTransactions(tamper.old)
        /\ TxsOf(Block(tamper.block), mem) = tamper.new
        /\ calculateHash(Block(tamper.block), mem) = Block(tamper.block).Hash
        /\ IsValid(bc, mem) = Returned(TRUE)

\* a block's two transactions have been replaced by one transaction whose
\* to-field holds a terminator
C17_Witness ==
    /\ tamper # Nil
    /\ tamper.field = "transactions"
    /\ <<tamper.old, tamper.new>> \in CollidingPairs
    /\ Len(tamper.old) = 2
    /\ Len(tamper.new) = 1
    /\ IsValid(bc, mem) = Returned(TRUE)

\* the three words of bc.Blocks name an array and a length within it
HeaderOK ==
    /\ bc.Blocks.ptr \in 1 .. Len(mem.blocks)
    /\ bc.Blocks.len \in 1 .. Len(mem.blocks[bc.Blocks.ptr])

\* ledger chain is a chain that holds every block AddBlock has returned
\* (rets), in memory m
ChainIntact(chain, m, rets) ==
    /\ \A i \in 1 .. chain.Blocks.len : At(chain.Blocks, i, m).Index = i - 1
    /\ \A i \in 2 .. chain.Blocks.len :
           At(chain.Blocks, i, m).PrevHash = At(chain.Blocks, i - 1, m).Hash
    /\ IsValid(chain, m) = Returned(TRUE)
    /\ \A c \in Callers :
           rets[c] # Nil =>
               \E i \in 1 .. chain.Blocks.len : At(chain.Blocks, i, m) = rets[c]

(***************************************************************************)
(* C18.  AddBlock reads the tail and stores the new tail in separate       *)
(* steps.  While no two calls have run at once (each began after the one   *)
(* before it had returned) no access goes wrong, a call that is mining     *)
(* has built its block on the ledger's tail, and between the calls the     *)
(* ledger is a chain (indices count from 0, every block links to its       *)
(* predecessor, IsValid is true) that holds every returned block.  Two     *)
(* calls that overlap can leave two blocks built on the same parent.       *)
(***************************************************************************)
C18_SerialisedAppends ==
    ~overlapped =>
        /\ status \notin {"corrupt", "panic"}
        /\ \A c \in Callers :
               (Created /\ Mining(c) /\ call[c].op = "AddBlock") =>
                   /\ HeaderOK
                   /\ call[c].b.PrevHash = Block(Height).Hash
                   /\ call[c].b.Index = Block(Height).Index + 1
        /\ (Created /\ Quiet) => (HeaderOK /\ ChainIntact(bc, mem, ret))

\* two overlapping calls have returned and left two blocks built on the
\* same parent in the ledger: IsValid is false
C18_Witness ==
    /\ Created
    /\ overlapped
    /\ status = "active"
    /\ \A c \in Callers : call[c] = Idle /\ ret[c] # Nil
    /\ HeaderOK
    /\ Height >= 3
    /\ Block(Height).PrevHash = Block(Height - 1).PrevHash
    /\ Block(Height).Index = Block(Height - 1).Index
    /\ IsValid(bc, mem) = Returned(FALSE)

\* the value a call of IsValid has returned
Validated(r) == r # Nil /\ "valid" \in DOMAIN r

(***************************************************************************)
(* C19.  mine and IsValid only read.  A pass of mine's loop leaves the     *)
(* ledger (the blocks, each of their fields, the transactions they refer   *)
(* to, the difficulty) and the block its caller holds as they are: while   *)
(* mine runs that block has the nonce 0 and no hash.  A call of IsValid    *)
(* leaves the ledger as it is and returns what IsValid gives of it, which  *)
(* is what a second call right after it returns.                           *)
(***************************************************************************)
C19_ReadOnly ==
    [][\A c \in Callers :
          /\ call[c] # Idle =>
                 /\ call[c].b.Nonce = 0
                 /\ call[c].b.Hash = EmptyString
          /\ (call[c] # Idle /\ call'[c] # Idle /\ call'[c] # call[c]) =>
                 /\ bc' = bc
                 /\ mem' = mem
                 /\ call'[c].b = call[c].b
          /\ (ret'[c] # ret[c] /\ Validated(ret'[c])) =>
                 /\ bc' = bc
                 /\ mem' = mem
                 /\ Returned(ret'[c].valid) = IsValid(bc, mem)
                 /\ IsValid(bc', mem') = Returned(ret'[c].valid)]_vars

\* IsValid has returned false of a ledger of two blocks, which is still
\* the ledger, and the next AddBlock is past its second nonce with its
\* block as newBlock built it
C19_Witness ==
    /\ Created
    /\ Height = 2
    /\ Validated(ret[Main])
    /\ ~ret[Main].valid
    /\ IsValid(bc, mem) = Returned(FALSE)
    /\ call[Main] # Idle
    /\ call[Main].nonce >= 2
    /\ call[Main].b.Nonce = 0
    /\ call[Main].b.Hash = EmptyString
=============================================================================
